---- MODULE Spec2Model ----
(***************************************************************************)
(* Model of the menus namespace of teams-js                               *)
(* (packages/teams-js/src/private/menus.ts): three handler slots, the     *)
(* three define/show operations, the three dispatch functions behind the  *)
(* inbound "item pressed" commands, and the capability query.             *)
(*                                                                         *)
(* The bridge (sendMessageToParent, registerHandler), the session guard   *)
(* (ensureInitialized) and the capability registry (runtime) live outside *)
(* menus.ts; they are modelled from the specification.                    *)
(***************************************************************************)
EXTENDS Integers, Sequences, FiniteSets, TLC

\* ---------------------------------------------------------------- bounds
\* identifiers carried by inbound commands are 1..MaxId
MaxId == 2
\* payloads (view lists, item lists, action-menu parameters) are 1..MaxPayload
MaxPayload == 2

Ids == 1..MaxId
Payloads == 1..MaxPayload

\* ------------------------------------------------------------- vocabulary
Channels == {"navBar", "actionMenu", "viewConfig"}

\* the value of a `let` binding that was never assigned
Undefined == "undefined"

\* caller-supplied callbacks (id: string) => boolean, named by behaviour:
\*   hTrue / hFalse   return the constant
\*   hThrow           raises
\*   hRe              from inside the callback, calls the define/show operation
\*                    of the channel it is installed on with handler hNested,
\*                    then returns true
\*   hNested          returns false; only ever installed by hRe
Handlers == {"hTrue", "hFalse", "hThrow", "hRe"}
ReentryHandler == "hNested"
ReentryPayload == 1
AllHandlers == Handlers \cup {ReentryHandler}

\* what a callback does with an identifier: "true", "false" or "throw"
HandlerReturns(h, id) ==
  CASE h = "hTrue" -> "true"
    [] h = "hFalse" -> "false"
    [] h = "hThrow" -> "throw"
    [] h = "hRe" -> "true"
    [] h = "hNested" -> "false"

\* outbound command names
SetUpViewsCmd == "setUpViews"
SetNavBarMenuCmd == "setNavBarMenu"
ShowActionMenuCmd == "showActionMenu"
ViewConfigFallbackCmd == "viewConfigItemPress"
NavBarFallbackCmd == "handleNavBarMenuItemPress"
ActionMenuFallbackCmd == "handleActionMenuItemPress"

\* inbound command names
NavBarInboundCmd == "navBarMenuItemPress"
ActionMenuInboundCmd == "actionMenuItemPress"
ViewConfigInboundCmd == "setModuleView"
InboundCmds == {NavBarInboundCmd, ActionMenuInboundCmd, ViewConfigInboundCmd}

\* the spec's per-channel tables of section 6
DefineCmdOf(ch) ==
  CASE ch = "navBar" -> SetNavBarMenuCmd
    [] ch = "actionMenu" -> ShowActionMenuCmd
    [] ch = "viewConfig" -> SetUpViewsCmd

FallbackCmdOf(ch) ==
  CASE ch = "navBar" -> NavBarFallbackCmd
    [] ch = "actionMenu" -> ActionMenuFallbackCmd
    [] ch = "viewConfig" -> ViewConfigFallbackCmd

ChannelOfInbound(name) ==
  CASE name = NavBarInboundCmd -> "navBar"
    [] name = ActionMenuInboundCmd -> "actionMenu"
    [] name = ViewConfigInboundCmd -> "viewConfig"

DefineCmds == {SetUpViewsCmd, SetNavBarMenuCmd, ShowActionMenuCmd}
FallbackCmds == {ViewConfigFallbackCmd, NavBarFallbackCmd, ActionMenuFallbackCmd}

Msg(cmd, args) == [cmd |-> cmd, args |-> args]

\* ------------------------------------------------------------------ state
VARIABLES
  navBarMenuItemPressHandler,   \* slot of the navigation-bar channel
  actionMenuItemPressHandler,   \* slot of the action-menu channel
  viewConfigItemPressHandler,   \* slot of the view-configuration channel
  handlers,                     \* bridge: inbound command name -> registration
  initialized,                  \* session guard: handshake completed
  everInitialized,              \* history: the session was initialized at least once
  runtimePopulated,             \* capability registry: snapshot applied
  supportsMenus,                \* runtime.supports.menus: "undefined", "true", "false"
  latest,                       \* history: handler of the latest successful define per channel
  outbox,                       \* transport: commands sent by the call just made
  last                          \* observation of the call just made, if any

vars == <<navBarMenuItemPressHandler, actionMenuItemPressHandler,
          viewConfigItemPressHandler, handlers, initialized, everInitialized,
          runtimePopulated, supportsMenus, latest, outbox, last>>

Slot(ch) ==
  CASE ch = "navBar" -> navBarMenuItemPressHandler
    [] ch = "actionMenu" -> actionMenuItemPressHandler
    [] ch = "viewConfig" -> viewConfigItemPressHandler

\* the module's slots, the transport and the observations of one call in flight
Enter ==
  [nav |-> navBarMenuItemPressHandler,
   act |-> actionMenuItemPressHandler,
   view |-> viewConfigItemPressHandler,
   out |-> <<>>,        \* commands handed to the bridge so far, in order
   err |-> "none",      \* "none", "NotInitialized" or "HandlerFault"
   ret |-> "none",      \* what the invoked callback returned: "true" or "false"
   invoked |-> <<>>,    \* the callbacks invoked so far, with their argument
   defined |-> <<>>,    \* the define/show calls that passed the guard so far
   nested |-> 0,        \* commands sent from inside the invoked callback
   guard |-> 0]         \* times a dispatch function consulted the session guard

\* --------------------------------------------------- external collaborators
\* Session Guard: passes (TRUE) when the handshake completed, raises otherwise
ensureInitialized(init) == init

\* Bridge Primitive, outbound: one named command with positional arguments
sendMessageToParent(m, cmd, args) == [m EXCEPT !.out = Append(@, Msg(cmd, args))]

\* Bridge Primitive, inbound: bind a command name to a function; the flag says
\* whether the registration needs the session to be initialized to fire
NoRegistrations == [n \in {} |-> [fn |-> Undefined, flag |-> FALSE]]

registerHandler(hs, name, fn, flag) ==
  [n \in (DOMAIN hs) \cup {name} |->
     IF n = name THEN [fn |-> fn, flag |-> flag] ELSE hs[n]]

\* ------------------------------------------------------ define/show operations
\* variant: the handler is stored before the guard is consulted
setUpViews_StoreFirst(m, init, viewConfig, handler) ==
  LET m1 == [m EXCEPT !.view = handler] IN
  IF ~ensureInitialized(init)
    THEN [m1 EXCEPT !.err = "NotInitialized"]
    ELSE sendMessageToParent(
           [m1 EXCEPT !.defined = Append(@, [ch |-> "viewConfig", handler |-> handler])],
           SetUpViewsCmd, <<viewConfig>>)

\* variant: the first handler of the channel is kept
setUpViews_KeepFirst(m, init, viewConfig, handler) ==
  IF ~ensureInitialized(init)
    THEN [m EXCEPT !.err = "NotInitialized"]
    ELSE sendMessageToParent(
           [m EXCEPT !.view = IF @ = Undefined THEN handler ELSE @,
                     !.defined = Append(@, [ch |-> "viewConfig", handler |-> handler])],
           SetUpViewsCmd, <<viewConfig>>)

setUpViews(m, init, viewConfig, handler) ==
  IF ~ensureInitialized(init)
    THEN [m EXCEPT !.err = "NotInitialized"]
    ELSE sendMessageToParent(
           [m EXCEPT !.view = handler,
                     !.defined = Append(@, [ch |-> "viewConfig", handler |-> handler])],
           SetUpViewsCmd, <<viewConfig>>)

\* variant: the guard is consulted after the store and the send
setNavBarMenu_GuardLast(m, init, items, handler) ==
  LET m1 == sendMessageToParent(
              [m EXCEPT !.nav = handler,
                        !.defined = Append(@, [ch |-> "navBar", handler |-> handler])],
              SetNavBarMenuCmd, <<items>>)
  IN  IF ~ensureInitialized(init) THEN [m1 EXCEPT !.err = "NotInitialized"] ELSE m1

setNavBarMenu(m, init, items, handler) ==
  IF ~ensureInitialized(init)
    THEN [m EXCEPT !.err = "NotInitialized"]
    ELSE sendMessageToParent(
           [m EXCEPT !.nav = handler,
                     !.defined = Append(@, [ch |-> "navBar", handler |-> handler])],
           SetNavBarMenuCmd, <<items>>)

\* variant: the guard is not consulted
showActionMenu_NoGuard(m, init, params, handler) ==
  sendMessageToParent(
    [m EXCEPT !.act = handler,
              !.defined = Append(@, [ch |-> "actionMenu", handler |-> handler])],
    ShowActionMenuCmd, <<params>>)

\* variant: the payload is sent under the navigation-bar command
showActionMenu_WrongCmd(m, init, params, handler) ==
  IF ~ensureInitialized(init)
    THEN [m EXCEPT !.err = "NotInitialized"]
    ELSE sendMessageToParent(
           [m EXCEPT !.act = handler,
                     !.defined = Append(@, [ch |-> "actionMenu", handler |-> handler])],
           SetNavBarMenuCmd, <<params>>)

\* variant: the call is rejected when the host did not declare the capability
showActionMenu_Gated(m, init, params, handler) ==
  IF ~ensureInitialized(init)
    THEN [m EXCEPT !.err = "NotInitialized"]
    ELSE IF supportsMenus # "true"
      THEN [m EXCEPT !.err = "NotSupported"]
      ELSE sendMessageToParent(
             [m EXCEPT !.act = handler,
                       !.defined = Append(@, [ch |-> "actionMenu", handler |-> handler])],
             ShowActionMenuCmd, <<params>>)

showActionMenu(m, init, params, handler) ==
  IF ~ensureInitialized(init)
    THEN [m EXCEPT !.err = "NotInitialized"]
    ELSE sendMessageToParent(
           [m EXCEPT !.act = handler,
                     !.defined = Append(@, [ch |-> "actionMenu", handler |-> handler])],
           ShowActionMenuCmd, <<params>>)

\* ------------------------------------------------------- callback invocation
\* the body of the callback h installed on channel ch, called with id; a failure
\* of the define/show call made by hRe leaves the callback as an exception
CallHandler(m, init, h, id, ch) ==
  LET m1 == [m EXCEPT !.invoked = Append(@, [h |-> h, id |-> id])]
      m2 == CASE h = "hRe" /\ ch = "navBar" ->
                   setNavBarMenu(m1, init, ReentryPayload, ReentryHandler)
              [] h = "hRe" /\ ch = "actionMenu" ->
                   showActionMenu(m1, init, ReentryPayload, ReentryHandler)
              [] h = "hRe" /\ ch = "viewConfig" ->
                   setUpViews(m1, init, ReentryPayload, ReentryHandler)
              [] OTHER -> m1
  IN  IF HandlerReturns(h, id) = "throw" THEN [m1 EXCEPT !.err = "HandlerFault"]
      ELSE IF m2.err # "none" THEN m2
      ELSE [m2 EXCEPT !.ret = HandlerReturns(h, id), !.nested = Len(m2.out)]

\* --------------------------------------------------------- dispatch functions
\* each is: if (!slot || !slot(id)) { ensureInitialized(); sendMessageToParent(fallback, [id]); }

\* variant: the navigation-bar slot is consulted
handleViewConfigItemPress_NavSlot(m, init, id) ==
  LET h == m.nav
      m1 == IF h = Undefined THEN m ELSE CallHandler(m, init, h, id, "viewConfig")
  IN  IF m1.err # "none" THEN m1
      ELSE IF h = Undefined \/ m1.ret = "false"
        THEN IF ~ensureInitialized(init)
               THEN [m1 EXCEPT !.guard = @ + 1, !.err = "NotInitialized"]
               ELSE sendMessageToParent([m1 EXCEPT !.guard = @ + 1],
                                        ViewConfigFallbackCmd, <<id>>)
        ELSE m1

\* variant: the guard is consulted before the handler is invoked
handleViewConfigItemPress_GuardFirst(m, init, id) ==
  LET h == m.view
      m0 == [m EXCEPT !.guard = @ + 1]
      m1 == IF h = Undefined THEN m0 ELSE CallHandler(m0, init, h, id, "viewConfig")
  IN  IF ~ensureInitialized(init) THEN [m0 EXCEPT !.err = "NotInitialized"]
      ELSE IF m1.err # "none" THEN m1
      ELSE IF h = Undefined \/ m1.ret = "false"
        THEN sendMessageToParent(m1, ViewConfigFallbackCmd, <<id>>)
        ELSE m1

handleViewConfigItemPress(m, init, id) ==
  LET h == m.view
      m1 == IF h = Undefined THEN m ELSE CallHandler(m, init, h, id, "viewConfig")
  IN  IF m1.err # "none" THEN m1
      ELSE IF h = Undefined \/ m1.ret = "false"
        THEN IF ~ensureInitialized(init)
               THEN [m1 EXCEPT !.guard = @ + 1, !.err = "NotInitialized"]
               ELSE sendMessageToParent([m1 EXCEPT !.guard = @ + 1],
                                        ViewConfigFallbackCmd, <<id>>)
        ELSE m1

\* variant: the guard is consulted after the handler whatever it returned
handleNavBarMenuItemPress_GuardAlways(m, init, id) ==
  LET h == m.nav
      m1 == IF h = Undefined THEN m ELSE CallHandler(m, init, h, id, "navBar")
      m2 == [m1 EXCEPT !.guard = @ + 1]
  IN  IF m1.err # "none" THEN m1
      ELSE IF ~ensureInitialized(init) THEN [m2 EXCEPT !.err = "NotInitialized"]
      ELSE IF h = Undefined \/ m1.ret = "false"
        THEN sendMessageToParent(m2, NavBarFallbackCmd, <<id>>)
        ELSE m2

\* variant: the identifier is forwarded whatever the handler returns
handleNavBarMenuItemPress_ForwardHandled(m, init, id) ==
  LET h == m.nav
      m1 == IF h = Undefined THEN m ELSE CallHandler(m, init, h, id, "navBar")
  IN  IF m1.err # "none" THEN m1
      ELSE IF ~ensureInitialized(init)
             THEN [m1 EXCEPT !.guard = @ + 1, !.err = "NotInitialized"]
             ELSE sendMessageToParent([m1 EXCEPT !.guard = @ + 1],
                                      NavBarFallbackCmd, <<id>>)

\* variant: the slot is read again after the handler returned, and a handler
\* found there that was not there before is asked instead
handleNavBarMenuItemPress_Reread(m, init, id) ==
  LET h == m.nav
      m0 == IF h = Undefined THEN m ELSE CallHandler(m, init, h, id, "navBar")
      m1 == IF m0.err = "none" /\ h # Undefined /\ m0.nav # h
              THEN CallHandler(m0, init, m0.nav, id, "navBar")
              ELSE m0
  IN  IF m1.err # "none" THEN m1
      ELSE IF h = Undefined \/ m1.ret = "false"
        THEN IF ~ensureInitialized(init)
               THEN [m1 EXCEPT !.guard = @ + 1, !.err = "NotInitialized"]
               ELSE sendMessageToParent([m1 EXCEPT !.guard = @ + 1],
                                        NavBarFallbackCmd, <<id>>)
        ELSE m1

handleNavBarMenuItemPress(m, init, id) ==
  LET h == m.nav
      m1 == IF h = Undefined THEN m ELSE CallHandler(m, init, h, id, "navBar")
  IN  IF m1.err # "none" THEN m1
      ELSE IF h = Undefined \/ m1.ret = "false"
        THEN IF ~ensureInitialized(init)
               THEN [m1 EXCEPT !.guard = @ + 1, !.err = "NotInitialized"]
               ELSE sendMessageToParent([m1 EXCEPT !.guard = @ + 1],
                                        NavBarFallbackCmd, <<id>>)
        ELSE m1

\* variant: the fallback is sent without consulting the guard
handleActionMenuItemPress_NoGuard(m, init, id) ==
  LET h == m.act
      m1 == IF h = Undefined THEN m ELSE CallHandler(m, init, h, id, "actionMenu")
  IN  IF m1.err # "none" THEN m1
      ELSE IF h = Undefined \/ m1.ret = "false"
        THEN sendMessageToParent(m1, ActionMenuFallbackCmd, <<id>>)
        ELSE m1

\* variant: a failure of the handler is caught and the selection treated as
\* not handled
handleActionMenuItemPress_CatchFault(m, init, id) ==
  LET h == m.act
      m0 == IF h = Undefined THEN m ELSE CallHandler(m, init, h, id, "actionMenu")
      m1 == IF m0.err # "none" THEN [m0 EXCEPT !.err = "none", !.ret = "false"] ELSE m0
  IN  IF h = Undefined \/ m1.ret = "false"
        THEN IF ~ensureInitialized(init)
               THEN [m1 EXCEPT !.guard = @ + 1, !.err = "NotInitialized"]
               ELSE sendMessageToParent([m1 EXCEPT !.guard = @ + 1],
                                        ActionMenuFallbackCmd, <<id>>)
        ELSE m1

\* variant: a handler that handled a selection is dropped from the slot
handleActionMenuItemPress_OneShot(m, init, id) ==
  LET h == m.act
      m1 == IF h = Undefined THEN m ELSE CallHandler(m, init, h, id, "actionMenu")
  IN  IF m1.err # "none" THEN m1
      ELSE IF h = Undefined \/ m1.ret = "false"
        THEN IF ~ensureInitialized(init)
               THEN [m1 EXCEPT !.guard = @ + 1, !.err = "NotInitialized"]
               ELSE sendMessageToParent([m1 EXCEPT !.guard = @ + 1],
                                        ActionMenuFallbackCmd, <<id>>)
        ELSE [m1 EXCEPT !.act = Undefined]

handleActionMenuItemPress(m, init, id) ==
  LET h == m.act
      m1 == IF h = Undefined THEN m ELSE CallHandler(m, init, h, id, "actionMenu")
  IN  IF m1.err # "none" THEN m1
      ELSE IF h = Undefined \/ m1.ret = "false"
        THEN IF ~ensureInitialized(init)
               THEN [m1 EXCEPT !.guard = @ + 1, !.err = "NotInitialized"]
               ELSE sendMessageToParent([m1 EXCEPT !.guard = @ + 1],
                                        ActionMenuFallbackCmd, <<id>>)
        ELSE m1

\* ------------------------------------------------------------ capability query
\* variant: runtime.supports.menus !== false
isSupported_NotFalse(menusFlag) == IF menusFlag # "false" THEN "true" ELSE "false"

\* runtime.supports.menus ? true : false
isSupported(menusFlag) == IF menusFlag = "true" THEN "true" ELSE "false"

\* --------------------------------------------------------------- registration
\* variant: two of the commands are bound to each other's dispatch function
initialize_Swapped(hs) ==
  LET h1 == registerHandler(hs, NavBarInboundCmd, "handleActionMenuItemPress", FALSE)
      h2 == registerHandler(h1, ActionMenuInboundCmd, "handleNavBarMenuItemPress", FALSE)
      h3 == registerHandler(h2, ViewConfigInboundCmd, "handleViewConfigItemPress", FALSE)
  IN  h3

initialize(hs) ==
  LET h1 == registerHandler(hs, NavBarInboundCmd, "handleNavBarMenuItemPress", FALSE)
      h2 == registerHandler(h1, ActionMenuInboundCmd, "handleActionMenuItemPress", FALSE)
      h3 == registerHandler(h2, ViewConfigInboundCmd, "handleViewConfigItemPress", FALSE)
  IN  h3

\* ------------------------------------------------------------------- actions
\* observation of a call: its arguments, what the collaborators answered when it
\* was made (init, populated, menus) and what it did
NoCall ==
  [op |-> "none", ch |-> Undefined, arg |-> 0, handler |-> Undefined,
   init |-> FALSE, populated |-> FALSE, menus |-> "undefined",
   err |-> "none", ret |-> "none", invoked |-> <<>>, defined |-> <<>>,
   nested |-> 0, guard |-> 0]

Observe(op, ch, arg, handler, m) ==
  [op |-> op, ch |-> ch, arg |-> arg, handler |-> handler,
   init |-> initialized, populated |-> runtimePopulated, menus |-> supportsMenus,
   err |-> m.err, ret |-> m.ret, invoked |-> m.invoked, defined |-> m.defined,
   nested |-> m.nested, guard |-> m.guard]

RECURSIVE RecordDefined(_, _)
RecordDefined(lat, ds) ==
  IF ds = <<>> THEN lat
  ELSE RecordDefined([lat EXCEPT ![Head(ds).ch] = Head(ds).handler], Tail(ds))

\* the call returns (or raises): its writes and sends become the state
Commit(m) ==
  /\ navBarMenuItemPressHandler' = m.nav
  /\ actionMenuItemPressHandler' = m.act
  /\ viewConfigItemPressHandler' = m.view
  /\ outbox' = m.out
  /\ latest' = RecordDefined(latest, m.defined)

Init ==
  /\ navBarMenuItemPressHandler = Undefined
  /\ actionMenuItemPressHandler = Undefined
  /\ viewConfigItemPressHandler = Undefined
  /\ handlers = NoRegistrations
  /\ initialized = FALSE
  /\ everInitialized = FALSE
  /\ runtimePopulated = FALSE
  /\ supportsMenus = "undefined"
  /\ latest = [c \in Channels |-> Undefined]
  /\ outbox = <<>>
  /\ last = NoCall

\* a step of the collaborators, not a call into the module: the host has taken
\* what the previous call sent, and there is no call to observe
NoCallMade ==
  /\ outbox' = <<>>
  /\ last' = NoCall
  /\ UNCHANGED <<navBarMenuItemPressHandler, actionMenuItemPressHandler,
                 viewConfigItemPressHandler, handlers, latest>>

\* the handshake completes
SessionInitialized ==
  /\ ~initialized
  /\ initialized' = TRUE
  /\ everInitialized' = TRUE
  /\ NoCallMade
  /\ UNCHANGED <<runtimePopulated, supportsMenus>>

\* the session is torn down; the module's slots are not cleared
SessionUninitialized ==
  /\ initialized
  /\ initialized' = FALSE
  /\ NoCallMade
  /\ UNCHANGED <<everInitialized, runtimePopulated, supportsMenus>>

\* the handshake applies the host's capability snapshot, once
PopulateRuntime ==
  /\ ~runtimePopulated
  /\ runtimePopulated' = TRUE
  /\ supportsMenus' \in {"undefined", "true", "false"}
  /\ NoCallMade
  /\ UNCHANGED <<initialized, everInitialized>>

CallInitialize ==
  /\ handlers' = initialize(handlers)
  /\ last' = Observe("initialize", Undefined, 0, Undefined, Enter)
  /\ Commit(Enter)
  /\ UNCHANGED <<initialized, everInitialized, runtimePopulated, supportsMenus>>

CallSetUpViews ==
  \E viewConfig \in Payloads, handler \in Handlers :
    LET m == setUpViews(Enter, initialized, viewConfig, handler) IN
    /\ Commit(m)
    /\ last' = Observe("define", "viewConfig", viewConfig, handler, m)
    /\ UNCHANGED <<handlers, initialized, everInitialized, runtimePopulated, supportsMenus>>

CallSetNavBarMenu ==
  \E items \in Payloads, handler \in Handlers :
    LET m == setNavBarMenu(Enter, initialized, items, handler) IN
    /\ Commit(m)
    /\ last' = Observe("define", "navBar", items, handler, m)
    /\ UNCHANGED <<handlers, initialized, everInitialized, runtimePopulated, supportsMenus>>

CallShowActionMenu ==
  \E params \in Payloads, handler \in Handlers :
    LET m == showActionMenu(Enter, initialized, params, handler) IN
    /\ Commit(m)
    /\ last' = Observe("define", "actionMenu", params, handler, m)
    /\ UNCHANGED <<handlers, initialized, everInitialized, runtimePopulated, supportsMenus>>

\* the bridge delivers an inbound command to the function registered for it
Receive ==
  \E name \in DOMAIN handlers, id \in Ids :
    LET reg == handlers[name]
        m == CASE reg.fn = "handleNavBarMenuItemPress" ->
                    handleNavBarMenuItemPress(Enter, initialized, id)
               [] reg.fn = "handleActionMenuItemPress" ->
                    handleActionMenuItemPress(Enter, initialized, id)
               [] reg.fn = "handleViewConfigItemPress" ->
                    handleViewConfigItemPress(Enter, initialized, id)
    IN
    /\ reg.flag => initialized
    /\ Commit(m)
    /\ last' = Observe("dispatch", ChannelOfInbound(name), id, Undefined, m)
    /\ UNCHANGED <<handlers, initialized, everInitialized, runtimePopulated, supportsMenus>>

CallIsSupported ==
  /\ last' = [Observe("isSupported", Undefined, 0, Undefined, Enter)
                EXCEPT !.ret = isSupported(supportsMenus)]
  /\ Commit(Enter)
  /\ UNCHANGED <<handlers, initialized, everInitialized, runtimePopulated, supportsMenus>>

Next ==
  \/ SessionInitialized
  \/ SessionUninitialized
  \/ PopulateRuntime
  \/ CallInitialize
  \/ CallSetUpViews
  \/ CallSetNavBarMenu
  \/ CallShowActionMenu
  \/ Receive
  \/ CallIsSupported

Spec == Init /\ [][Next]_vars

TypeOK ==
  /\ \A c \in Channels : Slot(c) \in AllHandlers \cup {Undefined}
  /\ initialized \in BOOLEAN
  /\ supportsMenus \in {"undefined", "true", "false"}
  /\ \A i \in 1..Len(outbox) : outbox[i].cmd \in DefineCmds \cup FallbackCmds

\* ---------------------------------------------------------------- properties
\* a step taken by a call into the module (the other steps are the session's
\* and the registry's own)
IsCallStep == last'.op # "none"

\* the slot of a channel after the step
SlotAfter(ch) ==
  CASE ch = "navBar" -> navBarMenuItemPressHandler'
    [] ch = "actionMenu" -> actionMenuItemPressHandler'
    [] ch = "viewConfig" -> viewConfigItemPressHandler'

Called(h, id) == <<[h |-> h, id |-> id]>>

NoFallbackIn(out) == \A i \in 1..Len(out) : out[i].cmd \notin FallbackCmds

\* C1: with the session initialized, a dispatch of id on a channel whose handler
\* returns true for id sends no fallback command and nothing of its own (the
\* transport stays empty unless the handler itself called a define operation);
\* a dispatch whose handler returns false, or that finds no handler, sends
\* exactly one command: the channel's fallback command with id as sole argument.
C1_FallbackIffUnhandled ==
  [][ (IsCallStep /\ last'.op = "dispatch" /\ initialized) =>
        LET ch == last'.ch
            id == last'.arg
            h == Slot(last'.ch)
        IN  /\ (h # Undefined /\ HandlerReturns(h, id) = "true") =>
                 /\ NoFallbackIn(outbox')
                 /\ Len(outbox') = last'.nested
                 /\ (h # "hRe" => outbox' = <<>>)
            /\ (h = Undefined \/ HandlerReturns(h, id) = "false") =>
                 outbox' = <<Msg(FallbackCmdOf(ch), <<id>>)>> ]_vars

C1_Witness ==
  /\ last.op = "dispatch" /\ last.init /\ last.arg = 2
  /\ last.invoked = Called("hFalse", 2)
  /\ outbox = <<Msg(FallbackCmdOf(last.ch), <<2>>)>>

\* C2: a dispatch on a channel invokes exactly the handler passed to the most
\* recent successful define/show call on that channel (and none if there was no
\* such call); a handler overwritten since is not invoked.
C2_OnlyLatestHandlerInvoked ==
  [][ (IsCallStep /\ last'.op = "dispatch") =>
        last'.invoked = IF latest[last'.ch] = Undefined
                          THEN <<>>
                          ELSE Called(latest[last'.ch], last'.arg) ]_vars

\* hNested is only ever installed over hRe: the channel saw hRe, then hNested,
\* and this dispatch invoked hNested alone
C2_Witness ==
  /\ last.op = "dispatch" /\ last.ch = "actionMenu"
  /\ latest["actionMenu"] = ReentryHandler
  /\ last.invoked = Called(ReentryHandler, last.arg)

\* C3: a define/show call made while the session is not initialized fails with
\* Not-initialized and sends nothing.
C3_DefineBeforeInitFails ==
  (last.op = "define" /\ ~last.init) =>
     (last.err = "NotInitialized" /\ outbox = <<>>)

C3_Witness ==
  /\ last.op = "define" /\ last.ch = "navBar" /\ ~last.init
  /\ last.err = "NotInitialized" /\ outbox = <<>>

\* C4: whatever the most recent call sent, it sent while the session guard
\* reported the session initialized.
C4_SendsOnlyWhenInitialized == (outbox # <<>>) => last.init

C4_Witness ==
  /\ last.op = "dispatch" /\ last.ch = "actionMenu" /\ last.init
  /\ outbox = <<Msg(ActionMenuFallbackCmd, <<last.arg>>)>>

\* C5: with the session initialized, a define/show call succeeds, leaves the
\* caller's handler in the slot of its channel, sends exactly one command, the
\* define command of the channel with the payload as sole argument, and returns
\* no value.
C5_DefineStoresAndSendsOnce ==
  (last.op = "define" /\ last.init) =>
     /\ last.err = "none"
     /\ last.ret = "none"
     /\ Slot(last.ch) = last.handler
     /\ outbox = <<Msg(DefineCmdOf(last.ch), <<last.arg>>)>>

C5_Witness ==
  /\ last.op = "define" /\ last.ch = "actionMenu" /\ last.init
  /\ last.arg = 2 /\ last.handler = "hTrue"
  /\ actionMenuItemPressHandler = "hTrue"
  /\ outbox = <<Msg(ShowActionMenuCmd, <<2>>)>>

\* C6: isSupported() returns false while the registry is not populated and the
\* registry's "menus" flag once it is; in any state it sends nothing, registers
\* nothing, changes no slot and does not fail.
C6_IsSupportedPure ==
  [][ (IsCallStep /\ last'.op = "isSupported") =>
        /\ last'.err = "none"
        /\ (~runtimePopulated => last'.ret = "false")
        /\ (runtimePopulated => last'.ret = IF supportsMenus = "true" THEN "true" ELSE "false")
        /\ outbox' = <<>>
        /\ handlers' = handlers
        /\ \A c \in Channels : SlotAfter(c) = Slot(c) ]_vars

C6_Witness ==
  /\ last.op = "isSupported" /\ ~last.init
  /\ last.populated /\ last.menus = "undefined" /\ last.ret = "false"

\* C7: with the session initialized and the "menus" capability not declared, a
\* define/show call still stores its handler, still sends its define command
\* and raises nothing.
C7_DefineIgnoresCapability ==
  (last.op = "define" /\ last.init /\ last.menus # "true") =>
     /\ last.err = "none"
     /\ Slot(last.ch) = last.handler
     /\ outbox = <<Msg(DefineCmdOf(last.ch), <<last.arg>>)>>

C7_Witness ==
  /\ last.op = "define" /\ last.ch = "actionMenu" /\ last.init
  /\ last.populated /\ last.menus = "false"
  /\ last.err = "none" /\ Len(outbox) = 1

\* C8: a define/show call leaves the slots of the other two channels as they
\* were; a dispatch on a channel invokes no handler but the one in that
\* channel's slot, leaves the other two slots as they were, and sends no
\* fallback command but that channel's own.
C8_ChannelsIndependent ==
  [][ IsCallStep =>
        /\ (last'.op \in {"define", "dispatch"}) =>
              \A c \in Channels \ {last'.ch} : SlotAfter(c) = Slot(c)
        /\ (last'.op = "dispatch") =>
              /\ \A i \in 1..Len(last'.invoked) :
                    last'.invoked[i].h = Slot(last'.ch)
              /\ \A i \in 1..Len(outbox') :
                    outbox'[i].cmd \in FallbackCmds =>
                       outbox'[i].cmd = FallbackCmdOf(last'.ch) ]_vars

C8_Witness ==
  /\ last.op = "dispatch" /\ last.ch = "viewConfig"
  /\ navBarMenuItemPressHandler = "hTrue"
  /\ actionMenuItemPressHandler = "hThrow"
  /\ viewConfigItemPressHandler = "hFalse"
  /\ last.invoked = Called("hFalse", last.arg)
  /\ outbox = <<Msg(ViewConfigFallbackCmd, <<last.arg>>)>>

\* C9: with the session initialized, a dispatch that finds hRe in the slot
\* invokes hRe alone, decides by hRe's return value (true: no fallback, the only
\* command sent is the define command hRe itself issued) and leaves hNested in
\* the slot; a dispatch that finds hNested there invokes hNested.
C9_ReentrantRegistrationAffectsNextDispatch ==
  [][ (IsCallStep /\ last'.op = "dispatch" /\ initialized) =>
        /\ (Slot(last'.ch) = "hRe") =>
              /\ last'.invoked = Called("hRe", last'.arg)
              /\ last'.err = "none"
              /\ SlotAfter(last'.ch) = ReentryHandler
              /\ outbox' = <<Msg(DefineCmdOf(last'.ch), <<ReentryPayload>>)>>
        /\ (Slot(last'.ch) = ReentryHandler) =>
              last'.invoked = Called(ReentryHandler, last'.arg) ]_vars

C9_Witness ==
  /\ last.op = "dispatch" /\ last.ch = "navBar" /\ last.init
  /\ last.invoked = Called("hRe", last.arg)
  /\ navBarMenuItemPressHandler = ReentryHandler
  /\ outbox = <<Msg(SetNavBarMenuCmd, <<ReentryPayload>>)>>

\* C10: with the session not initialized, a dispatch that finds no handler, or
\* whose handler returns false, fails with Not-initialized and sends nothing;
\* a handler found in the slot has been invoked once with the identifier.
C10_UnhandledBeforeInitFails ==
  [][ (IsCallStep /\ last'.op = "dispatch" /\ ~initialized
         /\ (Slot(last'.ch) = Undefined
               \/ HandlerReturns(Slot(last'.ch), last'.arg) = "false")) =>
        /\ last'.err = "NotInitialized"
        /\ outbox' = <<>>
        /\ last'.invoked = IF Slot(last'.ch) = Undefined
                             THEN <<>>
                             ELSE Called(Slot(last'.ch), last'.arg) ]_vars

C10_Witness ==
  /\ last.op = "dispatch" /\ last.ch = "viewConfig" /\ ~last.init
  /\ last.err = "NotInitialized"
  /\ last.invoked = Called("hFalse", last.arg)
  /\ outbox = <<>>

\* the callback h, called with id, raises instead of returning: hThrow always,
\* hRe when the define operation it calls fails the guard
HandlerRaises(h, id, init) ==
  \/ HandlerReturns(h, id) = "throw"
  \/ (h = "hRe" /\ ~init)

\* C11: a dispatch whose handler raises ends with that failure, has invoked the
\* handler once, sends nothing, does not reach the guard of the dispatch
\* function and leaves all three slots as they were.
C11_HandlerFaultPropagates ==
  [][ (IsCallStep /\ last'.op = "dispatch"
         /\ Slot(last'.ch) # Undefined
         /\ HandlerRaises(Slot(last'.ch), last'.arg, initialized)) =>
        /\ last'.err = IF Slot(last'.ch) = "hThrow" THEN "HandlerFault"
                                                    ELSE "NotInitialized"
        /\ last'.invoked = Called(Slot(last'.ch), last'.arg)
        /\ outbox' = <<>>
        /\ last'.guard = 0
        /\ \A c \in Channels : SlotAfter(c) = Slot(c) ]_vars

C11_Witness ==
  /\ last.op = "dispatch" /\ last.ch = "actionMenu" /\ last.init
  /\ last.err = "HandlerFault"
  /\ last.invoked = Called("hThrow", last.arg)
  /\ actionMenuItemPressHandler = "hThrow"
  /\ outbox = <<>>

\* C12: the three slots are empty at module load; in any step a slot changes
\* only to the handler of a define/show call on its own channel that passed the
\* guard in that step (made by the caller, or by the handler a dispatch
\* invoked); a dispatch function writes no slot, a failed define/show call
\* changes none, and a populated slot is never empty again.
C12_SlotChange ==
  \A c \in Channels :
    /\ (SlotAfter(c) # Slot(c)) =>
          /\ last'.err = "none"
          /\ \E i \in 1..Len(last'.defined) :
                /\ last'.defined[i].ch = c
                /\ last'.defined[i].handler = SlotAfter(c)
          /\ (last'.op = "define" => last'.ch = c)
          /\ (last'.op = "dispatch" => (last'.ch = c /\ Slot(c) = "hRe"))
    /\ (Slot(c) # Undefined) => (SlotAfter(c) # Undefined)

C12_SlotsChangeOnlyByDefine ==
  /\ \A c \in Channels : Slot(c) = Undefined
  /\ [][C12_SlotChange]_vars

C12_Witness ==
  /\ last.op = "dispatch" /\ last.ch = "actionMenu" /\ last.init
  /\ last.invoked = Called("hTrue", last.arg)
  /\ last.err = "none"
  /\ actionMenuItemPressHandler = "hTrue"
  /\ navBarMenuItemPressHandler = ReentryHandler
  /\ viewConfigItemPressHandler = Undefined

\* the dispatch function of a channel
DispatchFnOf(ch) ==
  CASE ch = "navBar" -> "handleNavBarMenuItemPress"
    [] ch = "actionMenu" -> "handleActionMenuItemPress"
    [] ch = "viewConfig" -> "handleViewConfigItemPress"

\* C13: once initialize() has run, exactly the three inbound commands are
\* registered, each bound to the dispatch function of its own channel and
\* flagged as not requiring the session to be initialized; an inbound command
\* can then be delivered whether or not the session is initialized.
C13_ThreeRegistrationsNoInitRequired ==
  (DOMAIN handlers # {}) =>
     /\ DOMAIN handlers = InboundCmds
     /\ \A n \in DOMAIN handlers :
           handlers[n] = [fn |-> DispatchFnOf(ChannelOfInbound(n)), flag |-> FALSE]
     /\ ENABLED Receive

\* delivered while the session is not initialized, and the handler was reached
C13_Witness ==
  /\ last.op = "dispatch" /\ last.ch = "navBar" /\ ~last.init
  /\ last.invoked = Called("hTrue", last.arg)
  /\ last.err = "none"

\* C14: a define/show call made while the session is not initialized fails and
\* leaves every slot, in particular its own channel's, as it was; the handler
\* it was given does not become the channel's latest handler.
C14_FailedDefineKeepsSlot ==
  [][ (IsCallStep /\ last'.op = "define" /\ ~initialized) =>
        /\ last'.err = "NotInitialized"
        /\ \A c \in Channels : SlotAfter(c) = Slot(c)
        /\ latest' = latest ]_vars

C14_Witness ==
  /\ last.op = "define" /\ last.ch = "viewConfig" /\ ~last.init
  /\ last.err = "NotInitialized" /\ last.handler = "hTrue"
  /\ viewConfigItemPressHandler = "hFalse"
  /\ latest["viewConfig"] = "hFalse"

\* C15: a dispatch whose handler returns true completes without error, without
\* consulting the guard and without sending anything of its own, whether or not
\* the session is initialized; the guard is consulted by a dispatch function
\* only when no handler is registered or the handler returned false.
C15_GuardOnlyOnUnhandledPath ==
  [][ (IsCallStep /\ last'.op = "dispatch") =>
        LET h == Slot(last'.ch)
            id == last'.arg
        IN  /\ (h # Undefined /\ HandlerReturns(h, id) = "true"
                  /\ ~HandlerRaises(h, id, initialized)) =>
                 /\ last'.err = "none"
                 /\ last'.guard = 0
                 /\ Len(outbox') = last'.nested
                 /\ (h # "hRe" => outbox' = <<>>)
            /\ (last'.guard > 0) =>
                 (h = Undefined \/ HandlerReturns(h, id) = "false") ]_vars

C15_Witness ==
  /\ last.op = "dispatch" /\ last.ch = "navBar" /\ ~last.init /\ ~initialized
  /\ navBarMenuItemPressHandler = "hTrue"
  /\ last.invoked = Called("hTrue", last.arg)
  /\ last.err = "none" /\ last.guard = 0 /\ outbox = <<>>

\* C16: as long as the session has never been initialized all three slots are
\* empty, and a dispatch made in that time has invoked no handler, sent nothing
\* and failed with Not-initialized.
C16_NothingHandledBeforeFirstInit ==
  (~everInitialized) =>
     /\ \A c \in Channels : Slot(c) = Undefined
     /\ (last.op = "dispatch") =>
           /\ last.err = "NotInitialized"
           /\ last.invoked = <<>>
           /\ outbox = <<>>

C16_Witness ==
  /\ ~everInitialized
  /\ last.op = "dispatch" /\ last.ch = "actionMenu"
  /\ last.err = "NotInitialized" /\ last.guard = 1
  /\ last.invoked = <<>> /\ outbox = <<>>

====
